---- MODULE Spec2Model ----
(***************************************************************************)
(* State-machine model of woke/testing/transactions.py: one transaction    *)
(* handle (TransactionAbc / LegacyTransaction), its six lazily populated   *)
(* cache slots, the status / wait() polling protocol and the accessors     *)
(* that resolve events, the revert error and the return value against a    *)
(* development chain (Anvil, Ganache or Hardhat).                          *)
(*                                                                         *)
(* Python values are modelled as follows.  A str is a sequence of          *)
(* one-character strings.  An Optional is None (the empty tuple) or        *)
(* Some(x) (a one-element tuple).  A JSON value whose Python type the code *)
(* depends on (the data of a JsonRpcError) is tagged: JStr, JDict, JNull.  *)
(* The outcome of a call is Return(v) or Raise(e).                         *)
(***************************************************************************)
EXTENDS Integers, Sequences, FiniteSets, TLC

\* ------------------------------------------------------------------ bounds

\* Backend-call counters saturate at MaxCount.
MaxCount == 2
\* Sleeps counted per wait() call saturate at MaxSleeps (the loop itself goes on).
MaxSleeps == 2

\* --------------------------------------------------------- Python values

None == <<>>
Some(x) == <<x>>
TheVal(o) == o[1]

JNull == [t |-> "null"]
JStr(s) == [t |-> "str", v |-> s]
JDict(d) == [t |-> "dict", v |-> d]

Return(v) == [kind |-> "return", val |-> v]
Raise(e) == [kind |-> "raise", val |-> e]

AssertionError == [exc |-> "AssertionError"]
NotImplementedError == [exc |-> "NotImplementedError"]
TypeError == [exc |-> "TypeError"]
ValueError == [exc |-> "ValueError"]
KeyError == [exc |-> "KeyError"]
AttributeError == [exc |-> "AttributeError"]
JsonRpcError(d) == [exc |-> "JsonRpcError", data |-> d]
TransactionRevertedError(id, b) ==
    [exc |-> "TransactionRevertedError", id |-> id, data |-> b]

Inc(k) == IF k < MaxCount THEN k + 1 ELSE k

\* str.startswith("0x")
startswith0x(s) == Len(s) >= 2 /\ s[1] = "0" /\ s[2] = "x"

\* s[2:]
from2(s) == SubSeq(s, 3, Len(s))

HexDigits ==
    <<"0", "1", "2", "3", "4", "5", "6", "7", "8", "9", "a", "b", "c", "d", "e", "f">>

IsHexDigit(c) == \E k \in 1..16 : HexDigits[k] = c

HexDigitVal(c) == (CHOOSE k \in 1..16 : HexDigits[k] = c) - 1

RECURSIVE HexFold(_, _)
HexFold(s, acc) ==
    IF s = <<>> THEN acc ELSE HexFold(Tail(s), acc * 16 + HexDigitVal(Head(s)))

\* int(x, 16) of an Optional str: Raise(TypeError) for None, Raise(ValueError) for
\* a string that is no hexadecimal literal, the number otherwise.
int16(o) ==
    IF o = None THEN Raise(TypeError)
    ELSE LET s == TheVal(o)
             d == IF startswith0x(s) THEN from2(s) ELSE s
         IN IF d = <<>> \/ \E k \in 1..Len(d) : ~IsHexDigit(d[k])
            THEN Raise(ValueError)
            ELSE Return(HexFold(d, 0))

RECURSIVE HexBytes(_)
HexBytes(d) ==
    IF d = <<>> THEN <<>>
    ELSE <<HexDigitVal(d[1]) * 16 + HexDigitVal(d[2])>> \o HexBytes(SubSeq(d, 3, Len(d)))

\* bytes.fromhex(s)
fromhex(s) ==
    IF Len(s) % 2 # 0 \/ \E k \in 1..Len(s) : ~IsHexDigit(s[k])
    THEN Raise(ValueError)
    ELSE Return(HexBytes(s))

\* ------------------------------------------------------------ enumerations

\* range(40) in wait(): the checks made without sleeping
FastChecks == 40

PENDING == -1
SUCCESS == 1
FAILURE == 0

\* TransactionTypeEnum
LEGACY == 0
EIP2930 == 1
EIP1559 == 2

\* -------------------------------------------------------------- the state

VARIABLES
    cfg,    \* the handle's constructor arguments and its chain's backend variant
    chain,  \* the backend: what its JSON-RPC calls answer for this transaction
    self,   \* the handle's six cache slots
    n,      \* number of backend calls issued so far, per method (saturating),
            \* and of receipts stored, errors decoded and waits cancelled
    th,     \* the calling thread: where it is inside wait(), and for which accessor
            \* (one record per thread where two threads share the handle)
    last,   \* outcome of the last completed operation (of each thread, likewise)
    obs     \* what the latest evaluation of status returned, if any

vars == <<cfg, chain, self, n, th, last, obs>>

DevChains == {"AnvilDevChain", "GanacheDevChain", "HardhatDevChain"}

\* The JSON-RPC error shapes a reverting eth_call is answered with: the revert
\* payload directly under error.data, the same without 0x prefix, one level deeper
\* under error.data.data, or no data member at all.
ReplayErrors == {"data", "data_noprefix", "data_data", "nodata"}

str_0x0 == <<"0", "x", "0">>
str_0x1 == <<"0", "x", "1">>
str_0x2 == <<"0", "x", "2">>
str_0x1b == <<"0", "x", "1", "b">>
str_0x7 == <<"0", "x", "7">>
str_0xb1 == <<"0", "x", "b", "1">>
str_0xc0 == <<"0", "x", "c", "0">>
str_0x5208 == <<"0", "x", "5", "2", "0", "8">>
\* revert payload 0x08c379a0 (the Error(string) selector)
str_payload == <<"0", "x", "0", "8", "c", "3", "7", "9", "a", "0">>
\* return data of the outermost call frame, and of an inner frame
str_output == <<"2", "a">>
str_inner == <<"0", "1">>

\* ------------------------------------------------------------ the backend

\* eth_getTransactionByHash: block hash, block number and transaction index are
\* null until the transaction is mined.
\* The type tag is that of the submitted transaction; every type carries a
\* gasPrice (the effective price for a fee-market transaction) and a v.
get_transaction(ch) ==
    IF ch.receipt = None
    THEN [blockHash |-> None, blockNumber |-> None, transactionIndex |-> None,
          nonce |-> Some(str_0x7), type |-> Some(ch.type),
          gasPrice |-> Some(str_0x5208), v |-> Some(str_0x1b)]
    ELSE [blockHash |-> Some(str_0xb1), blockNumber |-> Some(str_0x1),
          transactionIndex |-> Some(str_0x0), nonce |-> Some(str_0x7),
          type |-> Some(ch.type), gasPrice |-> Some(str_0x5208),
          v |-> Some(str_0x1b)]

\* eth_getTransactionReceipt: None while the transaction is pending.
get_transaction_receipt(ch) == ch.receipt

\* The parameters the transaction was submitted with (self._tx_params).
tx_params == [to |-> str_0xc0, data |-> str_payload]

\* eth_call: with the transaction's parameters it returns normally, or raises a
\* JsonRpcError whose data is the JSON-RPC error object; any other call returns.
call(ch, params) ==
    CASE params # tx_params -> Return(str_inner)
      [] ch.replay = "data" ->
            Raise(JsonRpcError(JDict([code |-> JNull, data |-> JStr(str_payload)])))
      [] ch.replay = "data_noprefix" ->
            Raise(JsonRpcError(JDict([code |-> JNull, data |-> JStr(from2(str_payload))])))
      [] ch.replay = "data_data" ->
            Raise(JsonRpcError(JDict([code |-> JNull,
                                      data |-> JDict([data |-> JStr(str_payload)])])))
      [] ch.replay = "nodata" ->
            Raise(JsonRpcError(JDict([code |-> JNull])))
      [] OTHER -> Return(str_output)

\* trace_transaction: the call frames, outermost first.
trace_transaction(ch) ==
    <<[result |-> [output |-> <<"0", "x">> \o str_output]],
      [result |-> [output |-> <<"0", "x">> \o str_inner]]>>

\* debug_traceTransaction: the return value of the transaction and its opcode
\* steps, which carry memory snapshots when the options enable them.
debug_trace_transaction(ch, options) ==
    [returnValue |-> str_output,
     structLogs |-> IF options.enableMemory THEN "with_memory" ELSE "without_memory"]

\* A log entry of a receipt: its topics (with 0x prefix) and its data (without).
Log == [topics |-> <<str_payload>>, data |-> str_output]

\* The receipts the chain can produce when it mines the transaction.
Receipts ==
    [status : {str_0x0, str_0x1}, contractAddress : {None, Some(str_0xc0)},
     logs : {<<>>, <<Log>>}, gasUsed : {str_0x5208}, cumulativeGasUsed : {str_0x5208}]

\* How the backend answers a replay of the transaction. The answer is a fact of
\* the chain's state, the same at every replay; the model draws it when the first
\* replay is issued. A replay of a reverted transaction raises one of the error
\* shapes or, the state having moved on, returns; one of a successful
\* transaction returns.
Replays(ch) ==
    IF ch.replay # "unset" THEN {ch.replay}
    ELSE IF ch.receipt # None /\ TheVal(ch.receipt).status = str_0x0
    THEN ReplayErrors \cup {"none"}
    ELSE {"none"}

\* -------------------------------------------------------------- __init__

EmptySlots ==
    [tx_data |-> None, tx_receipt |-> None, trace_transaction |-> None,
     debug_trace_transaction |-> None, error |-> None, events |-> None]

NoCalls ==
    [get_transaction |-> 0, get_transaction_receipt |-> 0, trace_transaction |-> 0,
     debug_trace_transaction |-> 0, call |-> 0, receipts |-> 0, decoded |-> 0,
     cancelled |-> 0]

Idle ==
    [pc |-> "idle", op |-> "none", cached |-> FALSE, checks |-> 0, queries |-> 0,
     sleeps |-> 0]

\* The type tags of raw transaction data: legacy, access-list, fee-market.
TxTypes == {str_0x0, str_0x1, str_0x2}

Init ==
    /\ cfg \in [abi : {None, Some("abi")}, recipient_fqn : {None, Some("fqn")},
                dev_chain : DevChains]
    /\ chain = [receipt |-> None, replay |-> "unset", type |-> str_0x0]
    /\ self = EmptySlots
    /\ n = NoCalls
    /\ th = Idle
    /\ last = [op |-> "init", res |-> Return(None), cached |-> FALSE, q |-> 0,
               io |-> {}, resp |-> None, params |-> {}]
    /\ obs = None

\* The chain mines the transaction: from now on it has a receipt.
Mine ==
    /\ chain.receipt = None
    /\ \E r \in Receipts : chain' = [chain EXCEPT !.receipt = Some(r)]
    /\ UNCHANGED <<cfg, self, n, th, last, obs>>

\* ------------------------------------------------- the handle's methods
\* A method takes the program state st = [self |-> slots, n |-> call counters,
\* io |-> the backend methods called so far by the running operation], the
\* handle's configuration c and the backend ch, and yields the new program state
\* together with what the method returns or raises.

\* Mutant of fetch_tx_data: the slot is not tested, every read fetches.
fetch_tx_data_always(st, ch) ==
    [st EXCEPT !.self.tx_data = Some(get_transaction(ch)),
               !.n.get_transaction = Inc(@),
               !.io = @ \cup {"get_transaction"}]

\* _fetch_tx_data: the wrapper's fetch of the raw transaction data.
fetch_tx_data(st, ch) ==
    IF st.self.tx_data = None
    THEN [st EXCEPT !.self.tx_data = Some(get_transaction(ch)),
                    !.n.get_transaction = Inc(@),
                    !.io = @ \cup {"get_transaction"}]
    ELSE st

\* The accessors decorated with _fetch_tx_data.
tx_data_accessor(op, st, ch) ==
    LET st1 == fetch_tx_data(st, ch)
        data == TheVal(st1.self.tx_data)
    IN [st |-> st1,
        res |-> CASE op = "block_hash" -> Return(data.blockHash)
                  [] op = "block_number" -> int16(data.blockNumber)
                  [] op = "tx_index" -> int16(data.transactionIndex)
                  [] OTHER -> int16(data.nonce)]

\* The accessors of LegacyTransaction, decorated with _fetch_tx_data: v and
\* gas_price convert the raw field, type asserts the type tag.
legacy_accessor(op, st, ch) ==
    LET st1 == fetch_tx_data(st, ch)
        data == TheVal(st1.self.tx_data)
    IN [st |-> st1,
        res |-> CASE op = "v" -> int16(data.v)
                  [] op = "gas_price" -> int16(data.gasPrice)
                  [] OTHER ->
                       LET tag == int16(data.type)
                       IN IF tag.kind = "raise" THEN tag
                          ELSE IF tag.val = 0 THEN Return(LEGACY)
                          ELSE Raise(AssertionError)]

\* Mutant of status_of: the comparison is inverted.
status_of_inverted(receipt) ==
    IF int16(Some(receipt.status)).val = 0 THEN SUCCESS ELSE FAILURE

\* int(self._tx_receipt["status"], 16) == 0
status_of(receipt) ==
    IF int16(Some(receipt.status)).val = 0 THEN FAILURE ELSE SUCCESS

\* Mutant of status: the receipt slot is not tested, every evaluation queries.
status_requery(st, ch) ==
    LET receipt == get_transaction_receipt(ch)
        st1 == [st EXCEPT !.n.get_transaction_receipt = Inc(@),
                          !.io = @ \cup {"get_transaction_receipt"}]
    IN IF receipt = None
       THEN [st |-> st1, ret |-> PENDING, q |-> 1]
       ELSE [st |-> [st1 EXCEPT !.self.tx_receipt = receipt],
             ret |-> status_of(TheVal(receipt)), q |-> 1]

\* Mutant of status: the receipt received is not stored in the slot.
status_forgets_receipt(st, ch) ==
    IF st.self.tx_receipt = None
    THEN LET receipt == get_transaction_receipt(ch)
             st1 == [st EXCEPT !.n.get_transaction_receipt = Inc(@),
                               !.io = @ \cup {"get_transaction_receipt"}]
         IN IF receipt = None
            THEN [st |-> st1, ret |-> PENDING, q |-> 1]
            ELSE [st |-> st1, ret |-> status_of(TheVal(receipt)), q |-> 1]
    ELSE [st |-> st, ret |-> status_of(TheVal(st.self.tx_receipt)), q |-> 0]

\* TransactionAbc.status; q is the number of receipt queries it issued.
status(st, ch) ==
    IF st.self.tx_receipt = None
    THEN LET receipt == get_transaction_receipt(ch)
             st1 == [st EXCEPT !.n.get_transaction_receipt = Inc(@),
                               !.io = @ \cup {"get_transaction_receipt"}]
         IN IF receipt = None
            THEN [st |-> st1, ret |-> PENDING, q |-> 1]
            ELSE [st |-> [st1 EXCEPT !.self.tx_receipt = receipt,
                                     !.n.receipts = Inc(@)],
                  ret |-> status_of(TheVal(receipt)), q |-> 1]
    ELSE [st |-> st, ret |-> status_of(TheVal(st.self.tx_receipt)), q |-> 0]

\* TransactionAbc._fetch_trace_transaction
fetch_trace_transaction(st, ch) ==
    IF st.self.trace_transaction = None
    THEN [st EXCEPT !.self.trace_transaction = Some(trace_transaction(ch)),
                    !.n.trace_transaction = Inc(@),
                    !.io = @ \cup {"trace_transaction"}]
    ELSE st

\* TransactionAbc._fetch_debug_trace_transaction
fetch_debug_trace_transaction(st, ch) ==
    IF st.self.debug_trace_transaction = None
    THEN [st EXCEPT !.self.debug_trace_transaction =
                        Some(debug_trace_transaction(ch, [enableMemory |-> TRUE])),
                    !.n.debug_trace_transaction = Inc(@),
                    !.io = @ \cup {"debug_trace_transaction"}]
    ELSE st

\* ChainInterface._process_console_logs
process_console_logs(trace) == [console_logs_of |-> trace]

\* ChainInterface._process_events
process_events(logs, fqn) == [k \in 1..Len(logs) |-> [event |-> logs[k], fqn |-> fqn]]

\* ChainInterface._process_revert_data: decodes the payload into a new error
\* object (a named error, Error(string), a panic or the raw bytes) and raises it.
process_revert_data(id, bytes, fqn) == Raise(TransactionRevertedError(id, bytes))

\* ChainInterface._process_return_data
process_return_data(output, abi, return_type) ==
    [decoded |-> output, abi |-> abi, type |-> return_type]

\* self._return_type(address, chain)
return_type(address) == [reference |-> address]

\* TransactionAbc.gas_used
gas_used(st, c, ch) ==
    [st |-> st, res |-> int16(Some(TheVal(st.self.tx_receipt).gasUsed))]

\* TransactionAbc.cumulative_gas_used
cumulative_gas_used(st, c, ch) ==
    [st |-> st, res |-> int16(Some(TheVal(st.self.tx_receipt).cumulativeGasUsed))]

\* bytes.fromhex(t[2:]) if t.startswith("0x") else bytes.fromhex(t)
unhex(t) == IF startswith0x(t) THEN fromhex(from2(t)) ELSE fromhex(t)

UnknownEvent(topics, data) == [topics |-> topics, data |-> data]

\* TransactionAbc.raw_events
raw_events(st, c, ch) ==
    LET logs == TheVal(st.self.tx_receipt).logs
        fails(log) ==
            \/ \E k \in 1..Len(log.topics) : unhex(log.topics[k]).kind = "raise"
            \/ unhex(log.data).kind = "raise"
    IN IF \E k \in 1..Len(logs) : fails(logs[k])
       THEN [st |-> st, res |-> Raise(ValueError)]
       ELSE [st |-> st,
             res |-> Return([k \in 1..Len(logs) |->
                        UnknownEvent([j \in 1..Len(logs[k].topics) |->
                                          unhex(logs[k].topics[j]).val],
                                     unhex(logs[k].data).val)])]

\* Mutant of console_logs: a backend without call trace falls back to the debug
\* trace.
console_logs_degraded(st, c, ch) ==
    IF c.dev_chain = "AnvilDevChain"
    THEN LET st1 == fetch_trace_transaction(st, ch)
         IN [st |-> st1,
             res |-> Return(process_console_logs(TheVal(st1.self.trace_transaction)))]
    ELSE LET st1 == fetch_debug_trace_transaction(st, ch)
         IN [st |-> st1,
             res |-> Return(process_console_logs(TheVal(st1.self.debug_trace_transaction)))]

\* TransactionAbc.console_logs
console_logs(st, c, ch) ==
    IF c.dev_chain = "AnvilDevChain"
    THEN LET st1 == fetch_trace_transaction(st, ch)
         IN [st |-> st1,
             res |-> Return(process_console_logs(TheVal(st1.self.trace_transaction)))]
    ELSE [st |-> st, res |-> Raise(NotImplementedError)]

\* Mutant of events: the log list of a handle without recipient is not asserted
\* empty, the logs are silently ignored.
events_unchecked(st, c, ch) ==
    IF st.self.events # None
    THEN [st |-> st, res |-> Return(TheVal(st.self.events))]
    ELSE IF c.recipient_fqn = None
    THEN [st |-> [st EXCEPT !.self.events = Some(<<>>)], res |-> Return(<<>>)]
    ELSE LET ev == process_events(TheVal(st.self.tx_receipt).logs,
                                  TheVal(c.recipient_fqn))
         IN [st |-> [st EXCEPT !.self.events = Some(ev)], res |-> Return(ev)]

\* TransactionAbc.events
events(st, c, ch) ==
    IF st.self.events # None
    THEN [st |-> st, res |-> Return(TheVal(st.self.events))]
    ELSE IF c.recipient_fqn = None
    THEN IF Len(TheVal(st.self.tx_receipt).logs) # 0
         THEN [st |-> st, res |-> Raise(AssertionError)]
         ELSE [st |-> [st EXCEPT !.self.events = Some(<<>>)], res |-> Return(<<>>)]
    ELSE LET ev == process_events(TheVal(st.self.tx_receipt).logs,
                                  TheVal(c.recipient_fqn))
         IN [st |-> [st EXCEPT !.self.events = Some(ev)], res |-> Return(ev)]

\* x[key] of a JSON value
subscript(x, key) ==
    IF x.t = "dict"
    THEN IF key \in DOMAIN x.v THEN Return(x.v[key]) ELSE Raise(KeyError)
    ELSE Raise(TypeError)

\* Mutant of revert_data_of: Hardhat's payload is read at Anvil's depth.
revert_data_of_one_depth(dev_chain, e) ==
    LET d == subscript(e.data, "data")
    IN IF d.kind = "raise" THEN d
       ELSE IF d.val.t # "str" THEN Raise(AttributeError)
       ELSE IF startswith0x(d.val.v) THEN Return(from2(d.val.v))
       ELSE Return(d.val.v)

\* The inner try block of TransactionAbc.error: the revert payload of the replay's
\* JsonRpcError e at the depth of the backend variant, its 0x prefix stripped.
\* Any exception in it makes the accessor re-raise e.
revert_data_of(dev_chain, e) ==
    LET d1 == subscript(e.data, "data")
        d == IF dev_chain \in {"AnvilDevChain", "GanacheDevChain"} THEN d1
             ELSE IF dev_chain = "HardhatDevChain"
             THEN (IF d1.kind = "raise" THEN d1 ELSE subscript(d1.val, "data"))
             ELSE Raise(NotImplementedError)
    IN IF d.kind = "raise" THEN d
       ELSE IF d.val.t # "str" THEN Raise(AttributeError)
       ELSE IF startswith0x(d.val.v) THEN Return(from2(d.val.v))
       ELSE Return(d.val.v)

\* Mutant of replay_error: a replay that does not revert, or whose error carries
\* no payload at the backend's depth, is taken to mean that there is no error.
replay_error_lenient(st, c, ch) ==
    LET r == call(ch, tx_params)
        st1 == [st EXCEPT !.n.call = Inc(@), !.io = @ \cup {"call"},
                          !.params = @ \cup {tx_params}]
    IN IF r.kind = "return"
       THEN [st |-> st1, res |-> Return(None)]
       ELSE LET revert_data == revert_data_of(c.dev_chain, r.val)
            IN IF revert_data.kind = "raise"
               THEN [st |-> st1, res |-> Return(None)]
               ELSE IF c.recipient_fqn = None
               THEN [st |-> st1, res |-> Raise(AssertionError)]
               ELSE LET bytes == fromhex(revert_data.val)
                    IN IF bytes.kind = "raise"
                       THEN [st |-> st1, res |-> bytes]
                       ELSE LET e == process_revert_data(st1.n.decoded, bytes.val,
                                                         TheVal(c.recipient_fqn)).val
                            IN [st |-> [st1 EXCEPT !.self.error = Some(e),
                                                   !.n.decoded = Inc(@)],
                                res |-> Return(Some(e))]

\* TransactionAbc.error, from the replay on: call() with the transaction's
\* parameters, which should revert, and the decoding of its revert payload.
replay_error(st, c, ch) ==
    LET r == call(ch, tx_params)
        st1 == [st EXCEPT !.n.call = Inc(@), !.io = @ \cup {"call"},
                          !.params = @ \cup {tx_params}]
    IN IF r.kind = "return"
       THEN [st |-> st1, res |-> Raise(AssertionError)]
       ELSE LET revert_data == revert_data_of(c.dev_chain, r.val)
            IN IF revert_data.kind = "raise"
               THEN [st |-> st1, res |-> Raise(r.val)]
               ELSE IF c.recipient_fqn = None
               THEN [st |-> st1, res |-> Raise(AssertionError)]
               ELSE LET bytes == fromhex(revert_data.val)
                    IN IF bytes.kind = "raise"
                       THEN [st |-> st1, res |-> bytes]
                       ELSE LET e == process_revert_data(st1.n.decoded, bytes.val,
                                                         TheVal(c.recipient_fqn)).val
                            IN [st |-> [st1 EXCEPT !.self.error = Some(e),
                                                   !.n.decoded = Inc(@)],
                                res |-> Return(Some(e))]

\* Mutant of error: the status is not tested, a successful transaction is
\* replayed too.
error_replays_success(st, c, ch) ==
    IF st.self.error # None
    THEN [st |-> st, res |-> Return(st.self.error)]
    ELSE replay_error(st, c, ch)

\* Mutant of error: the cached error is not returned, every read replays.
error_nocache(st, c, ch) ==
    LET s == status(st, ch)
    IN IF s.ret = SUCCESS
       THEN [st |-> s.st, res |-> Return(None)]
       ELSE replay_error(s.st, c, ch)

\* TransactionAbc.error
error(st, c, ch) ==
    LET s == status(st, ch)
    IN IF s.ret = SUCCESS
       THEN [st |-> s.st, res |-> Return(None)]
       ELSE IF s.st.self.error # None
       THEN [st |-> s.st, res |-> Return(s.st.self.error)]
       ELSE replay_error(s.st, c, ch)

\* Mutant of decode_output: on Anvil the output of the last call frame is decoded
\* instead of that of the first, outermost one.
decode_output_last_frame(st, c, ch) ==
    IF c.dev_chain = "AnvilDevChain"
    THEN LET st1 == fetch_trace_transaction(st, ch)
             trace == TheVal(st1.self.trace_transaction)
             output == fromhex(from2(trace[Len(trace)].result.output))
         IN [st |-> st1,
             res |-> IF output.kind = "raise" THEN output
                     ELSE Return(process_return_data(output.val, TheVal(c.abi), "T"))]
    ELSE LET st1 == fetch_debug_trace_transaction(st, ch)
             output == fromhex(TheVal(st1.self.debug_trace_transaction).returnValue)
         IN [st |-> st1,
             res |-> IF output.kind = "raise" THEN output
                     ELSE Return(process_return_data(output.val, TheVal(c.abi), "T"))]

\* TransactionAbc.return_value, past the assertion of the ABI: the output bytes of
\* the outermost frame of the call trace on Anvil, the returnValue of the debug
\* trace elsewhere, decoded.
decode_output(st, c, ch) ==
    IF c.dev_chain = "AnvilDevChain"
    THEN LET st1 == fetch_trace_transaction(st, ch)
             output == fromhex(from2(TheVal(st1.self.trace_transaction)[1].result.output))
         IN [st |-> st1,
             res |-> IF output.kind = "raise" THEN output
                     ELSE Return(process_return_data(output.val, TheVal(c.abi), "T"))]
    ELSE LET st1 == fetch_debug_trace_transaction(st, ch)
             output == fromhex(TheVal(st1.self.debug_trace_transaction).returnValue)
         IN [st |-> st1,
             res |-> IF output.kind = "raise" THEN output
                     ELSE Return(process_return_data(output.val, TheVal(c.abi), "T"))]

\* Mutant of resolve_return_value: the ABI is asserted before the created
\* contract is looked at.
resolve_return_value_abi_first(st, c, ch) ==
    IF c.abi = None
    THEN [st |-> st, res |-> Raise(AssertionError)]
    ELSE IF TheVal(st.self.tx_receipt).contractAddress # None
    THEN [st |-> st,
          res |-> Return(return_type(TheVal(TheVal(st.self.tx_receipt).contractAddress)))]
    ELSE decode_output(st, c, ch)

\* TransactionAbc.return_value of a successful transaction: the created contract,
\* or the decoded output.
resolve_return_value(st, c, ch) ==
    IF TheVal(st.self.tx_receipt).contractAddress # None
    THEN [st |-> st,
          res |-> Return(return_type(TheVal(TheVal(st.self.tx_receipt).contractAddress)))]
    ELSE IF c.abi = None
    THEN [st |-> st, res |-> Raise(AssertionError)]
    ELSE decode_output(st, c, ch)

\* Mutant of return_value: the error is decoded again from a replay instead of
\* being read through the error accessor.
return_value_replays(st, c, ch) ==
    LET s == status(st, ch)
    IN IF s.ret # SUCCESS
       THEN LET e == replay_error(s.st, c, ch)
            IN IF e.res.kind = "raise" THEN e
               ELSE [st |-> e.st, res |-> Raise(TheVal(e.res.val))]
       ELSE resolve_return_value(s.st, c, ch)

\* TransactionAbc.return_value
return_value(st, c, ch) ==
    LET s == status(st, ch)
    IN IF s.ret # SUCCESS
       THEN LET e == error(s.st, c, ch)
            IN IF e.res.kind = "raise" THEN e
               ELSE IF e.res.val = None THEN [st |-> e.st, res |-> Raise(AssertionError)]
               ELSE [st |-> e.st, res |-> Raise(TheVal(e.res.val))]
       ELSE resolve_return_value(s.st, c, ch)

\* The body of an accessor decorated with _fetch_tx_receipt, run with the receipt
\* slot populated.
receipt_accessor(op, st, c, ch) ==
    CASE op = "gas_used" -> gas_used(st, c, ch)
      [] op = "cumulative_gas_used" -> cumulative_gas_used(st, c, ch)
      [] op = "raw_events" -> raw_events(st, c, ch)
      [] op = "console_logs" -> console_logs(st, c, ch)
      [] op = "events" -> events(st, c, ch)
      [] op = "error" -> error(st, c, ch)
      [] OTHER -> return_value(st, c, ch)

\* Mutant of wait: there is no while loop, wait returns after the for loop.
wait_for_loop_only(t, ret) ==
    IF t.pc = "fast"
    THEN IF ret # PENDING THEN "return"
         ELSE IF t.checks + 1 < FastChecks THEN "fast" ELSE "return"
    ELSE "return"

\* Mutant of wait: the for loop runs one time too many.
wait_one_more(t, ret) ==
    IF t.pc = "fast"
    THEN IF ret # PENDING THEN "return"
         ELSE IF t.checks + 1 <= FastChecks THEN "fast" ELSE "slow"
    ELSE IF ret = PENDING THEN "sleep" ELSE "return"

\* Mutant of wait: the while loop gives up after its first sleep.
wait_gives_up(t, ret) ==
    IF t.pc = "fast"
    THEN IF ret # PENDING THEN "return"
         ELSE IF t.checks + 1 < FastChecks THEN "fast" ELSE "slow"
    ELSE IF ret = PENDING /\ t.sleeps = 0 THEN "sleep" ELSE "return"

\* TransactionAbc.wait: where the loop goes after a status evaluation that
\* returned ret, the thread being at t.pc ("fast": in the for loop, having made
\* t.checks evaluations; "slow": at the condition of the while loop).
wait(t, ret) ==
    IF t.pc = "fast"
    THEN IF ret # PENDING THEN "return"
         ELSE IF t.checks + 1 < FastChecks THEN "fast" ELSE "slow"
    ELSE IF ret = PENDING THEN "sleep" ELSE "return"

\* ------------------------------------------------------------ the actions

TxDataOps == {"block_hash", "block_number", "nonce"}
ReceiptOps == {"gas_used", "console_logs", "events", "error", "return_value"}
LegacyOps == {"v", "gas_price", "type"}
AllReceiptOps == ReceiptOps \cup {"cumulative_gas_used", "raw_events"}

CheckCap == FastChecks + 1 + MaxSleeps
Count(k) == IF k < CheckCap THEN k + 1 ELSE k

St == [self |-> self, n |-> n, io |-> {}, params |-> {}]

\* An operation completes: the caller sees res. t is the thread's record of the
\* operation, q the receipt queries of its last evaluation of status, ch the
\* backend as the operation saw it.
Completed(op, st, res, t, q, ch) ==
    /\ self' = st.self
    /\ n' = st.n
    /\ th' = Idle
    /\ chain' = IF st.n.call # n.call THEN ch ELSE chain
    /\ last' = [op |-> op, res |-> res, cached |-> t.cached, q |-> q,
                io |-> st.io \cup (IF t.queries > 0 THEN {"get_transaction_receipt"}
                                   ELSE {}),
                resp |-> chain.receipt, params |-> st.params]

\* The caller reads an accessor decorated with _fetch_tx_data.
ReadTxData ==
    /\ th.pc = "idle"
    /\ \E op \in TxDataOps :
         LET r == tx_data_accessor(op, St, chain)
         IN Completed(op, r.st, r.res, [Idle EXCEPT !.cached = self.tx_receipt # None],
                      0, chain)
    /\ UNCHANGED <<cfg, obs>>

\* The caller reads an accessor of LegacyTransaction.
ReadLegacy ==
    /\ th.pc = "idle"
    /\ \E op \in LegacyOps :
         LET r == legacy_accessor(op, St, chain)
         IN Completed(op, r.st, r.res, [Idle EXCEPT !.cached = self.tx_receipt # None],
                      0, chain)
    /\ UNCHANGED <<cfg, obs>>

\* The caller reads status.
ReadStatus ==
    /\ th.pc = "idle"
    /\ LET r == status(St, chain)
       IN /\ Completed("status", r.st, Return(r.ret),
                       [Idle EXCEPT !.cached = self.tx_receipt # None], r.q, chain)
          /\ obs' = Some(r.ret)
    /\ UNCHANGED cfg

\* The caller reads an accessor decorated with _fetch_tx_receipt on a handle whose
\* receipt slot is populated: the wrapper runs the body at once.
ReadResolvedOf(ops) ==
    /\ th.pc = "idle"
    /\ self.tx_receipt # None
    /\ \E op \in ops, e \in Replays(chain) :
         LET ch == [chain EXCEPT !.replay = e]
             r == receipt_accessor(op, St, cfg, ch)
         IN Completed(op, r.st, r.res, [Idle EXCEPT !.cached = TRUE], 0, ch)
    /\ UNCHANGED <<cfg, obs>>

ReadResolved == ReadResolvedOf(ReceiptOps)

\* The same, for every accessor decorated with _fetch_tx_receipt.
ReadAccessor == ReadResolvedOf(AllReceiptOps)

\* The caller calls wait(), or reads an accessor decorated with _fetch_tx_receipt
\* on a handle whose receipt slot is empty, whose wrapper calls wait().
CallWaitOf(ops) ==
    /\ th.pc = "idle"
    /\ \E op \in ops :
         /\ op # "wait" => self.tx_receipt = None
         /\ th' = [Idle EXCEPT !.pc = "fast", !.op = op,
                               !.cached = self.tx_receipt # None]
    /\ last' = [op |-> "call", res |-> Return(None), cached |-> self.tx_receipt # None,
                q |-> 0, io |-> {}, resp |-> chain.receipt, params |-> {}]
    /\ UNCHANGED <<cfg, chain, self, n, obs>>

CallWait == CallWaitOf(ReceiptOps \cup {"wait"})

\* The same, for every accessor decorated with _fetch_tx_receipt.
CallAccessor == CallWaitOf(AllReceiptOps)

\* wait() evaluates status, in its for loop or at the condition of its while
\* loop, and goes on, or returns: to the caller, or to the wrapper that called it.
WaitCheck ==
    /\ th.pc \in {"fast", "slow"}
    /\ LET s == status(St, chain)
           t == [th EXCEPT !.checks = Count(@),
                           !.queries = IF s.q = 1 THEN Count(@) ELSE @]
           to == wait(th, s.ret)
       IN /\ obs' = Some(s.ret)
          /\ IF to = "return" /\ th.op = "wait"
             THEN Completed("wait", s.st, Return(None), t, s.q, chain)
             ELSE /\ th' = [t EXCEPT !.pc = IF to = "return" THEN "body" ELSE to]
                  /\ self' = s.st.self
                  /\ n' = s.st.n
                  /\ UNCHANGED <<last, chain>>
    /\ UNCHANGED cfg

\* wait() has returned to the wrapper of _fetch_tx_receipt, which asserts the
\* receipt and runs the accessor's body.
RunBody ==
    /\ th.pc = "body"
    /\ IF self.tx_receipt = None
       THEN Completed(th.op, St, Raise(AssertionError), th, 0, chain)
       ELSE \E e \in Replays(chain) :
              LET ch == [chain EXCEPT !.replay = e]
                  r == receipt_accessor(th.op, St, cfg, ch)
              IN Completed(th.op, r.st, r.res, th, 0, ch)
    /\ UNCHANGED <<cfg, obs>>

\* time.sleep(0.25) in the while loop of wait()
Sleep ==
    /\ th.pc = "sleep"
    /\ th' = [th EXCEPT !.pc = "slow",
                        !.sleeps = IF @ < MaxSleeps THEN @ + 1 ELSE @]
    /\ UNCHANGED <<cfg, chain, self, n, last, obs>>

Next ==
    \/ Mine
    \/ ReadTxData
    \/ ReadStatus
    \/ ReadResolved
    \/ CallWait
    \/ WaitCheck
    \/ Sleep
    \/ RunBody

Spec == Init /\ [][Next]_vars

\* The status / wait() protocol alone, on one handle configuration (wait() and
\* status read none of it): the caller reads status, calls wait() and reads receipt
\* accessors on a handle whose receipt slot is empty. The calling thread is
\* synchronous: inside wait() it always takes its next step.
WaitInit ==
    /\ Init
    /\ cfg = [abi |-> Some("abi"), recipient_fqn |-> Some("fqn"),
              dev_chain |-> "AnvilDevChain"]

WaitNext == Mine \/ ReadStatus \/ CallWait \/ WaitCheck \/ Sleep \/ RunBody

WaitSpec == WaitInit /\ [][WaitNext]_vars /\ WF_vars(WaitCheck) /\ WF_vars(Sleep)

\* The wrapper of _fetch_tx_receipt under every accessor it decorates, on the
\* handles that have an ABI and a recipient, of every backend variant.
AccessorInit ==
    /\ Init
    /\ cfg.abi # None
    /\ cfg.recipient_fqn # None

AccessorNext ==
    Mine \/ ReadStatus \/ ReadAccessor \/ CallAccessor \/ WaitCheck \/ Sleep \/ RunBody

AccessorSpec == AccessorInit /\ [][AccessorNext]_vars

\* A LegacyTransaction handle constructed for a transaction of any type: the
\* caller reads the raw-data accessors, the legacy ones among them, and status.
LegacyInit ==
    /\ cfg = [abi |-> Some("abi"), recipient_fqn |-> Some("fqn"),
              dev_chain |-> "AnvilDevChain"]
    /\ chain \in [receipt : {None}, replay : {"unset"}, type : TxTypes]
    /\ self = EmptySlots
    /\ n = NoCalls
    /\ th = Idle
    /\ last = [op |-> "init", res |-> Return(None), cached |-> FALSE, q |-> 0,
               io |-> {}, resp |-> None, params |-> {}]
    /\ obs = None

LegacyNext == Mine \/ ReadTxData \/ ReadLegacy \/ ReadStatus

LegacySpec == LegacyInit /\ [][LegacyNext]_vars

\* The exception by which an external deadline or cancellation ends wait().
Cancelled == [exc |-> "Cancelled"]

\* wait() is cancelled, between two checks or during a sleep: the exception
\* leaves wait() (and the wrapper of _fetch_tx_receipt that called it), which
\* handle nothing; the loop's position is lost with the frame.
Cancel ==
    /\ th.pc \in {"fast", "slow", "sleep"}
    /\ Completed("cancelled", [St EXCEPT !.n.cancelled = Inc(@)], Raise(Cancelled),
                 th, 0, chain)
    /\ UNCHANGED <<cfg, obs>>

\* The status / wait() protocol with a caller that may cancel wait().
CancelNext == WaitNext \/ Cancel

CancelSpec == WaitInit /\ [][CancelNext]_vars

\* ------------------------------------------------- two concurrent callers
\* Two threads read block_hash and status of one handle without synchronisation.
\* A thread is preempted between any two of its accesses to the handle and during
\* a backend call; the test of a slot and the assignment of a slot are each
\* atomic. Here th and last hold one record per thread: th[t].resp is the
\* response the thread has received and not yet stored.

Threads == {"t1", "t2"}
ThreadOps == {"block_hash", "status"}

ThreadIdle == [pc |-> "idle", op |-> "none", resp |-> None]

\* Fetches per slot are counted up to one more than there are threads.
ThreadInc(k) == IF k <= Cardinality(Threads) THEN k + 1 ELSE k

SlotOf(op) == IF op = "status" THEN "tx_receipt" ELSE "tx_data"

ThreadInit ==
    /\ cfg = [abi |-> Some("abi"), recipient_fqn |-> Some("fqn"),
              dev_chain |-> "AnvilDevChain"]
    /\ chain = [receipt |-> None, replay |-> "unset", type |-> str_0x0]
    /\ self = EmptySlots
    /\ n = NoCalls
    /\ th = [t \in Threads |-> ThreadIdle]
    /\ last = [t \in Threads |-> [op |-> "init", res |-> Return(None)]]
    /\ obs = None

\* Thread t reads an accessor: "if self._tx_data is None" in the wrapper of
\* _fetch_tx_data, "if self._tx_receipt is None" in status.
ThreadTest(t) ==
    /\ th[t].pc = "idle"
    /\ \E op \in ThreadOps :
         th' = [th EXCEPT ![t] = [pc |-> IF self[SlotOf(op)] = None THEN "fetch"
                                        ELSE "body",
                                  op |-> op, resp |-> None]]
    /\ UNCHANGED <<cfg, chain, self, n, last, obs>>

\* Thread t, having found the slot empty, calls the backend. status returns
\* PENDING at once when the backend has no receipt.
ThreadFetch(t) ==
    /\ th[t].pc = "fetch"
    /\ IF th[t].op = "status"
       THEN LET receipt == get_transaction_receipt(chain)
            IN IF receipt = None
               THEN /\ th' = [th EXCEPT ![t] = ThreadIdle]
                    /\ last' = [last EXCEPT ![t] = [op |-> "status",
                                                    res |-> Return(PENDING)]]
                    /\ n' = n
               ELSE /\ th' = [th EXCEPT ![t].pc = "store", ![t].resp = receipt]
                    /\ n' = [n EXCEPT !.receipts = ThreadInc(@)]
                    /\ last' = last
       ELSE /\ th' = [th EXCEPT ![t].pc = "store",
                                ![t].resp = Some(get_transaction(chain))]
            /\ n' = [n EXCEPT !.get_transaction = ThreadInc(@)]
            /\ last' = last
    /\ UNCHANGED <<cfg, chain, self, obs>>

\* Thread t assigns the response to the slot.
ThreadStore(t) ==
    /\ th[t].pc = "store"
    /\ self' = [self EXCEPT ![SlotOf(th[t].op)] = th[t].resp]
    /\ th' = [th EXCEPT ![t].pc = "body", ![t].resp = None]
    /\ UNCHANGED <<cfg, chain, n, last, obs>>

\* Thread t runs the rest of the accessor, which reads the slot, and returns.
ThreadBody(t) ==
    /\ th[t].pc = "body"
    /\ LET res == IF th[t].op = "status" THEN Return(status(St, chain).ret)
                  ELSE tx_data_accessor(th[t].op, St, chain).res
       IN last' = [last EXCEPT ![t] = [op |-> th[t].op, res |-> res]]
    /\ th' = [th EXCEPT ![t] = ThreadIdle]
    /\ UNCHANGED <<cfg, chain, self, n, obs>>

ThreadNext ==
    \/ Mine
    \/ \E t \in Threads :
          ThreadTest(t) \/ ThreadFetch(t) \/ ThreadStore(t) \/ ThreadBody(t)

ThreadSpec == ThreadInit /\ [][ThreadNext]_vars

\* ------------------------------------------------------------- the claims

Fetches == {"get_transaction", "get_transaction_receipt", "trace_transaction",
            "debug_trace_transaction", "call"}

\* The receipt in the handle's slot carries status flag zero.
Reverted == self.tx_receipt # None /\ TheVal(self.tx_receipt).status = str_0x0

\* C1 as stated: each of get_transaction, get_transaction_receipt,
\* trace_transaction, debug_trace_transaction and the replay call() is issued at
\* most once in the lifetime of a handle.
C1_EachFetchAtMostOnce ==
    \A f \in Fetches : n[f] <= 1

\* C1 amended: get_transaction, trace_transaction and debug_trace_transaction are
\* issued at most once per handle; get_transaction_receipt is answered with a
\* receipt at most once and is never issued once the receipt slot is populated
\* (while the transaction is pending every status evaluation issues it again);
\* call() yields a decoded error at most once and is never issued once the error
\* slot is populated.
C1_FetchedOncePerSlot ==
    /\ [](/\ n.get_transaction <= 1
          /\ n.trace_transaction <= 1
          /\ n.debug_trace_transaction <= 1
          /\ n.receipts <= 1
          /\ n.decoded <= 1)
    /\ [][/\ self.tx_receipt # None =>
                n'.get_transaction_receipt = n.get_transaction_receipt
          /\ self.error # None => n'.call = n.call
          /\ self.tx_receipt # None /\ th.pc = "idle" /\ last' # last =>
                "get_transaction_receipt" \notin last'.io
          /\ self.error # None /\ th.pc = "idle" /\ last' # last =>
                "call" \notin last'.io]_vars

\* C1 witness: a read of error answered from the error slot, with no backend call,
\* on a handle that has fetched raw data, receipt and trace once each.
C1_Witness ==
    /\ last.op = "error"
    /\ self.error # None
    /\ last.res = Return(self.error)
    /\ last.io = {}
    /\ n.call = 1
    /\ n.get_transaction = 1
    /\ self.events # None

\* C2: a cache slot that has become non-empty keeps its value in every later
\* state, and a status once evaluated to SUCCESS or FAILURE never evaluates to
\* anything else afterwards.
C2_SlotsWriteOnce ==
    [][/\ \A slot \in DOMAIN self : self[slot] # None => self'[slot] = self[slot]
       /\ obs \in {Some(SUCCESS), Some(FAILURE)} => obs' = obs]_vars

\* C2 witness: raw data, receipt, error and events populated, and a further read
\* of status answered from the receipt slot.
C2_Witness ==
    /\ self.tx_data # None
    /\ self.tx_receipt # None
    /\ self.error # None
    /\ self.events # None
    /\ last.op = "status"
    /\ last.cached
    /\ obs = Some(FAILURE)

FreshState == [self |-> EmptySlots, n |-> NoCalls, io |-> {}, params |-> {}]

\* C3: a read made while the transaction is pending is not cached as final: a
\* status read that returned PENDING leaves the receipt slot empty, and a raw-data
\* accessor read after the transaction is mined returns what the mined
\* transaction's data gives, not the data fetched before mining.
C3_PendingReadNotFinal ==
    /\ (last.op = "status" /\ last.res = Return(PENDING)) => self.tx_receipt = None
    /\ (last.op \in TxDataOps /\ last.resp # None) =>
          last.res = tx_data_accessor(last.op, FreshState, chain).res

\* C4: status returns PENDING exactly when the receipt slot was empty and the
\* backend had no receipt, FAILURE exactly when a receipt is present with flag
\* zero, SUCCESS exactly when one is present with a nonzero flag; a PENDING result
\* issued exactly one receipt query, a result from a cached receipt none.
C4_StatusRule ==
    last.op = "status" =>
        /\ last.res.kind = "return"
        /\ last.res.val = PENDING <=> (~last.cached /\ last.resp = None)
        /\ last.res.val = FAILURE <=>
              (self.tx_receipt # None /\ TheVal(self.tx_receipt).status = str_0x0)
        /\ last.res.val = SUCCESS <=>
              (self.tx_receipt # None /\ TheVal(self.tx_receipt).status # str_0x0)
        /\ last.res.val = PENDING => (last.q = 1 /\ last.io = {"get_transaction_receipt"})
        /\ last.cached => (last.q = 0 /\ last.io = {})
        /\ self.tx_receipt # None => self.tx_receipt = last.resp

\* C4 witness: a status read that found the receipt slot empty and the
\* transaction reverted.
C4_Witness ==
    /\ last.op = "status"
    /\ ~last.cached
    /\ last.res = Return(FAILURE)
    /\ last.q = 1

InWait == th.pc \in {"fast", "slow", "sleep"}

\* C5: wait() called on a handle whose receipt slot holds a receipt (status
\* SUCCESS or FAILURE) returns at its first check: no backend call, no sleep,
\* every cache slot and every call counter unchanged, at every such call.
C5_WaitOnTerminalReturnsAtOnce ==
    [][(InWait /\ th.cached) =>
          /\ th.op = "wait"
          /\ th.checks = 0
          /\ th.sleeps = 0
          /\ th'.pc = "idle"
          /\ last'.op = "wait"
          /\ last'.res = Return(None)
          /\ last'.io = {}
          /\ self' = self
          /\ n' = n]_vars

\* C5 witness: a wait() on a handle with a cached receipt has returned.
C5_Witness ==
    /\ last.op = "wait"
    /\ last.cached
    /\ th.pc = "idle"
    /\ self.tx_receipt # None

\* C6 as stated: while the backend returns no receipt, wait() has made at most 40
\* receipt checks when it has not slept yet.
C6_AtMostFortyChecksBeforeSleep ==
    (InWait /\ ~th.cached /\ th.sleeps = 0) => th.queries <= FastChecks

\* C6 amended: while the backend returns no receipt, wait() makes 41 receipt
\* checks without delay before its first sleep (the 40 of the for loop and the
\* first evaluation of the while condition), and from then on one check after
\* each sleep.
C6_FastChecksThenSleepPoll ==
    (InWait /\ ~th.cached) =>
        /\ th.queries = th.checks
        /\ th.sleeps = 0 => th.queries <= FastChecks + 1
        /\ th.pc = "fast" => (th.sleeps = 0 /\ th.queries < FastChecks)
        /\ (th.pc = "slow" /\ th.sleeps < MaxSleeps) =>
              th.queries = FastChecks + th.sleeps
        /\ (th.pc = "sleep" /\ th.sleeps < MaxSleeps) =>
              th.queries = FastChecks + 1 + th.sleeps

\* C6 witness: wait() is about to sleep for the second time, after 42 checks.
C6_Witness ==
    /\ th.pc = "sleep"
    /\ th.sleeps = 1
    /\ th.queries = FastChecks + 2
    /\ chain.receipt = None

\* C7: wait() returns only with the receipt cached and a terminal status; once the
\* backend has a receipt wait() returns; while it has none wait() goes on
\* polling: it reaches its next sleep and after each sleep checks again.
C7_WaitReturnsIffTerminal ==
    /\ [][(InWait /\ th'.pc \in {"idle", "body"}) =>
             /\ self'.tx_receipt # None
             /\ self'.tx_receipt = chain.receipt
             /\ obs' \in {Some(SUCCESS), Some(FAILURE)}]_vars
    /\ (InWait /\ chain.receipt # None) ~> (~InWait /\ self.tx_receipt # None)
    /\ (InWait /\ chain.receipt = None) ~> (chain.receipt # None \/ th.pc = "sleep")
    /\ (th.pc = "sleep") ~> (th.pc = "slow")

\* C7 witness: the chain mined the transaction while wait() was polling with
\* sleeps, and wait() returned.
C7_Witness ==
    /\ last.op = "wait"
    /\ ~last.cached
    /\ last.resp # None
    /\ th.pc = "idle"
    /\ n.get_transaction_receipt = MaxCount
    /\ self.tx_receipt = chain.receipt

HasCreatedContract ==
    self.tx_receipt # None /\ TheVal(self.tx_receipt).contractAddress # None

CreatedContract == TheVal(TheVal(self.tx_receipt).contractAddress)

\* C8 as stated: with a created-contract address in the receipt, return_value
\* yields a reference to that address whatever the ABI, the return type and the
\* status flag are, with no trace fetched and no replay issued.
C8_CreatedContractAnyStatus ==
    (last.op = "return_value" /\ HasCreatedContract) =>
        /\ last.res = Return([reference |-> CreatedContract])
        /\ last.io \cap {"trace_transaction", "debug_trace_transaction", "call"} = {}

\* C8 amended: with a created-contract address in the receipt of a transaction
\* whose status flag is nonzero (SUCCESS), return_value yields a reference to
\* that address whatever the ABI and the return type are, with no trace fetched
\* and no replay issued.
C8_CreatedContractOnSuccess ==
    (last.op = "return_value" /\ HasCreatedContract /\ ~Reverted) =>
        /\ last.res = Return([reference |-> CreatedContract])
        /\ last.io \cap {"trace_transaction", "debug_trace_transaction", "call"} = {}

\* C8 witness: return_value of a successful contract creation, read on a handle
\* without ABI.
C8_Witness ==
    /\ last.op = "return_value"
    /\ HasCreatedContract
    /\ ~Reverted
    /\ cfg.abi = None
    /\ last.res = Return([reference |-> str_0xc0])

\* What the caller of return_value gets when the error accessor gives r.
RaisedFrom(r) ==
    IF r.kind = "raise" THEN r
    ELSE IF r.val = None THEN Raise(AssertionError)
    ELSE Raise(TheVal(r.val))

\* C9: on a FAILURE transaction return_value never returns a value; it raises the
\* very error object that the error accessor returns (or fails as the error
\* accessor fails), whichever of the two is read first and however often.
C9_ReturnValueRaisesTheError ==
    /\ (last.op = "return_value" /\ Reverted) =>
          /\ last.res.kind = "raise"
          /\ self.error # None => last.res = Raise(TheVal(self.error))
          /\ self.error = None => last.res.val.exc # "TransactionRevertedError"
          /\ last.res = RaisedFrom(error(St, cfg, chain).res)
    /\ (last.op = "error" /\ Reverted) =>
          /\ last.res.kind = "return" => (self.error # None /\ last.res = Return(self.error))
          /\ self.error = None => last.res.kind = "raise"
          /\ return_value(St, cfg, chain).res = RaisedFrom(last.res)

\* C9 witness: return_value read after the error was decoded raises the cached
\* error object without any backend call.
C9_Witness ==
    /\ last.op = "return_value"
    /\ Reverted
    /\ self.error # None
    /\ last.res = Raise(TheVal(self.error))
    /\ last.io = {}

\* The bytes of the revert payload 0x08c379a0.
PayloadBytes == <<8, 195, 121, 160>>

\* C10: the revert payload handed to the decoder is error.data on Anvil and
\* error.data.data on Hardhat, without its 0x prefix; an error shaped for the
\* other backend's depth is not decoded: the accessor fails with the replay's
\* JsonRpcError and the error slot stays empty.
C10_RevertPayloadDepth ==
    (last.op = "error" /\ Reverted /\ cfg.recipient_fqn # None) =>
        LET own == IF cfg.dev_chain = "HardhatDevChain" THEN "data_data" ELSE "data"
            other == IF cfg.dev_chain = "HardhatDevChain" THEN "data" ELSE "data_data"
        IN /\ chain.replay = own =>
                /\ last.res.kind = "return"
                /\ TheVal(last.res.val).exc = "TransactionRevertedError"
                /\ TheVal(last.res.val).data = PayloadBytes
                /\ self.error = last.res.val
           /\ (chain.replay = "data_noprefix" /\ own = "data") =>
                /\ last.res.kind = "return"
                /\ TheVal(last.res.val).data = PayloadBytes
           /\ chain.replay = other =>
                /\ last.res = call(chain, tx_params)
                /\ last.res.kind = "raise"
                /\ last.res.val.exc = "JsonRpcError"
                /\ self.error = None

\* C10 witness: on Hardhat a replay error carrying its payload at error.data,
\* Anvil's depth, made the error accessor fail.
C10_Witness ==
    /\ last.op = "error"
    /\ Reverted
    /\ cfg.dev_chain = "HardhatDevChain"
    /\ cfg.recipient_fqn # None
    /\ chain.replay = "data"
    /\ last.res.kind = "raise"
    /\ self.error = None

\* C11: on a handle without recipient, events returns the empty list (and caches
\* it) when the receipt's log list is empty; when the log list is not empty it
\* fails an assertion, returns nothing and leaves the events slot empty, at the
\* first read and at every later one.
C11_EventsWithoutRecipient ==
    (last.op = "events" /\ cfg.recipient_fqn = None) =>
        /\ self.tx_receipt # None
        /\ TheVal(self.tx_receipt).logs = <<>> =>
              (last.res = Return(<<>>) /\ self.events = Some(<<>>))
        /\ TheVal(self.tx_receipt).logs # <<>> =>
              (last.res = Raise(AssertionError) /\ self.events = None)

\* C11 witness: events read on a contract creation whose receipt carries a log
\* failed the assertion.
C11_Witness ==
    /\ last.op = "events"
    /\ cfg.recipient_fqn = None
    /\ self.tx_receipt # None
    /\ TheVal(self.tx_receipt).logs = <<Log>>
    /\ last.res = Raise(AssertionError)
    /\ self.events = None

\* C12: on a handle of the legacy variant, gas_price and v return the raw fields
\* when the raw data carries type tag 0, and fail an assertion, like type, when
\* it carries the access-list or the fee-market tag: every legacy accessor
\* validates the type tag.
C12_LegacyAccessorsValidateType ==
    (last.op \in LegacyOps /\ self.tx_data # None) =>
        IF TheVal(self.tx_data).type = Some(str_0x0)
        THEN last.res = legacy_accessor(last.op, St, chain).res /\ last.res.kind = "return"
        ELSE last.res = Raise(AssertionError)

\* C13: an accessor decorated with _fetch_tx_receipt, read on a handle whose
\* receipt slot is empty, runs wait() first and stays in it while the slot is
\* empty: its body starts only after at least one receipt query, with the slot
\* holding the chain's receipt and a terminal status (the wrapper's assertion
\* holds); read on a handle whose receipt slot is populated it issues no receipt
\* query.
C13_ReceiptAccessorsWaitFirst ==
    /\ (InWait /\ th.op \in AllReceiptOps) => (self.tx_receipt = None /\ ~th.cached)
    /\ th.pc = "body" =>
          /\ th.op \in AllReceiptOps
          /\ ~th.cached
          /\ th.checks >= 1
          /\ th.queries = th.checks
          /\ self.tx_receipt # None
          /\ self.tx_receipt = chain.receipt
          /\ obs = Some(status_of(TheVal(self.tx_receipt)))
    /\ last.op \in AllReceiptOps =>
          /\ self.tx_receipt # None
          /\ self.tx_receipt = chain.receipt
          /\ last.cached <=> "get_transaction_receipt" \notin last.io

\* C13 witness: raw_events read on a pending transaction polled, the chain mined
\* the transaction, and the body ran on the receipt.
C13_Witness ==
    /\ last.op = "raw_events"
    /\ ~last.cached
    /\ "get_transaction_receipt" \in last.io
    /\ n.get_transaction_receipt = MaxCount
    /\ last.res.kind = "return"
    /\ Len(last.res.val) = 1
    /\ th.pc = "idle"

TraceCalls == {"trace_transaction", "debug_trace_transaction"}

\* C14: on a backend other than Anvil console_logs fails with NotImplementedError
\* and no result, issues neither trace_transaction nor debug_trace_transaction and
\* leaves both trace slots as they are (the call-trace slot is always empty
\* there, the debug-trace slot holds what return_value may have fetched before);
\* on Anvil it returns the logs of the call trace in the slot, which it fetches
\* only when the slot is empty, so at most once per handle.
C14_ConsoleLogsOnlyOnFullTrace ==
    /\ [](last.op = "console_logs" =>
            IF cfg.dev_chain = "AnvilDevChain"
            THEN /\ self.trace_transaction = Some(trace_transaction(chain))
                 /\ last.res = Return(process_console_logs(trace_transaction(chain)))
                 /\ n.trace_transaction = 1
                 /\ "debug_trace_transaction" \notin last.io
            ELSE /\ last.res = Raise(NotImplementedError)
                 /\ last.io \cap TraceCalls = {}
                 /\ self.trace_transaction = None
                 /\ n.trace_transaction = 0)
    /\ [][(last' # last /\ last'.op = "console_logs") =>
            /\ self'.debug_trace_transaction = self.debug_trace_transaction
            /\ n'.debug_trace_transaction = n.debug_trace_transaction
            /\ IF cfg.dev_chain = "AnvilDevChain"
               THEN "trace_transaction" \in last'.io <=> self.trace_transaction = None
               ELSE /\ self'.trace_transaction = self.trace_transaction
                    /\ n'.trace_transaction = n.trace_transaction]_vars

\* C14 witness: console_logs failed on Hardhat, on a handle whose debug-trace slot
\* return_value had populated.
C14_Witness ==
    /\ last.op = "console_logs"
    /\ cfg.dev_chain = "HardhatDevChain"
    /\ last.res = Raise(NotImplementedError)
    /\ self.debug_trace_transaction # None
    /\ self.trace_transaction = None

\* The handle's receipt is that of a successful transaction that created no
\* contract.
SucceededCall == self.tx_receipt # None /\ ~Reverted /\ ~HasCreatedContract

\* The bytes of the output 0x2a the backend reports for the transaction.
OutputBytes == <<42>>

\* What return_value does on the backend variant of the handle: the trace it
\* reads and the trace it never fetches.
TraceSourceOfBackend ==
    IF cfg.dev_chain = "AnvilDevChain"
    THEN /\ self.trace_transaction = Some(trace_transaction(chain))
         /\ n.trace_transaction = 1
         /\ self.debug_trace_transaction = None
         /\ n.debug_trace_transaction = 0
         /\ last.io \cap TraceCalls \subseteq {"trace_transaction"}
         /\ last.res.val.decoded =
               fromhex(from2(trace_transaction(chain)[1].result.output)).val
    ELSE /\ self.debug_trace_transaction =
               Some(debug_trace_transaction(chain, [enableMemory |-> TRUE]))
         /\ n.debug_trace_transaction = 1
         /\ self.trace_transaction = None
         /\ n.trace_transaction = 0
         /\ last.io \cap TraceCalls \subseteq {"debug_trace_transaction"}
         /\ last.res.val.decoded =
               fromhex(TheVal(self.debug_trace_transaction).returnValue).val

\* C15 as stated: for every SUCCESS transaction without created contract,
\* return_value decodes the outermost output of the call trace on Anvil and the
\* returnValue of the debug trace (fetched with enableMemory) elsewhere, never
\* fetching the other trace and never issuing the replay call(); the decoded
\* bytes are the output the backend reports.
C15_ReturnValueTraceSource ==
    (last.op = "return_value" /\ SucceededCall) =>
        /\ last.res.kind = "return"
        /\ last.res.val.decoded = OutputBytes
        /\ TraceSourceOfBackend
        /\ n.call = 0

\* C15 amended: the same for a handle constructed with an ABI; on a handle
\* without ABI return_value fails an assertion before it fetches any trace. The
\* trace is fetched when its slot is empty, so at most once per handle.
C15_ReturnValueTraceSourceWithAbi ==
    (last.op = "return_value" /\ SucceededCall) =>
        IF cfg.abi = None
        THEN /\ last.res = Raise(AssertionError)
             /\ last.io \cap (TraceCalls \cup {"call"}) = {}
             /\ n.debug_trace_transaction = 0
             /\ n.call = 0
        ELSE /\ last.res = Return(process_return_data(OutputBytes, TheVal(cfg.abi), "T"))
             /\ TraceSourceOfBackend
             /\ n.call = 0

\* C15 witness: return_value of a successful call on Hardhat, decoded from the
\* debug trace it fetched.
C15_Witness ==
    /\ last.op = "return_value"
    /\ SucceededCall
    /\ cfg.dev_chain = "HardhatDevChain"
    /\ cfg.abi # None
    /\ "debug_trace_transaction" \in last.io
    /\ last.res.kind = "return"
    /\ last.res.val.decoded = OutputBytes

\* C16: the replay call() is issued only by error and return_value on a handle
\* whose receipt carries status flag zero (FAILURE), always with the parameters
\* the transaction was submitted with: no call() has been issued for a handle
\* that is PENDING or SUCCESS, and error read on a SUCCESS handle returns None.
C16_ReplayOnlyOnFailure ==
    /\ ~Reverted => (n.call = 0 /\ chain.replay = "unset")
    /\ "call" \in last.io => (Reverted /\ last.op \in {"error", "return_value"})
    /\ "call" \in last.io <=> last.params # {}
    /\ last.params \subseteq {tx_params}
    /\ (last.op = "error" /\ self.tx_receipt # None /\ ~Reverted) =>
          (last.res = Return(None) /\ "call" \notin last.io)

\* C16 witness: error read on a reverted transaction replayed it with the
\* submission parameters.
C16_Witness ==
    /\ last.op = "error"
    /\ Reverted
    /\ "call" \in last.io
    /\ last.params = {tx_params}
    /\ n.call = 1

\* The error the chain answers the replay with carries a revert payload where the
\* handle's backend variant has it: under error.data on Anvil and Ganache, under
\* error.data.data on Hardhat.
HasPayloadAtDepth ==
    IF cfg.dev_chain = "HardhatDevChain"
    THEN chain.replay = "data_data"
    ELSE chain.replay \in {"data", "data_noprefix"}

\* C17: when the replay of a FAILURE handle returns without a backend error, the
\* resolution of the error fails an assertion; when it raises a backend error
\* without revert payload at the depth of the backend variant, the resolution
\* fails with that backend error; in both cases no decoded error and no None is
\* returned, nothing has been decoded and the error slot is empty.
C17_ReplayWithoutPayloadFails ==
    (last.op \in {"error", "return_value"} /\ Reverted /\ "call" \in last.io) =>
        /\ chain.replay \in ReplayErrors \cup {"none"}
        /\ chain.replay = "none" =>
              /\ last.res = Raise(AssertionError)
              /\ self.error = None
              /\ n.decoded = 0
        /\ (chain.replay \in ReplayErrors /\ ~HasPayloadAtDepth) =>
              /\ last.res.kind = "raise"
              /\ last.res.val.exc = "JsonRpcError"
              /\ last.res = call(chain, tx_params)
              /\ self.error = None
              /\ n.decoded = 0

\* C17 witness: the replay of a reverted transaction returned without error and
\* the error accessor failed, its slot empty.
C17_Witness ==
    /\ last.op = "error"
    /\ Reverted
    /\ "call" \in last.io
    /\ chain.replay = "none"
    /\ last.res = Raise(AssertionError)
    /\ self.error = None

\* The complete responses of get_transaction: before and after mining.
TxDataResponses ==
    {get_transaction([chain EXCEPT !.receipt = x]) :
        x \in {None} \cup {Some(r) : r \in Receipts}}

\* Each slot holds nothing or one complete backend response.
C18_SlotsComplete ==
    /\ self.tx_data \in {None} \cup {Some(d) : d \in TxDataResponses}
    /\ self.tx_receipt \in {None} \cup {Some(r) : r \in Receipts}
    /\ self.tx_receipt # None => self.tx_receipt = chain.receipt

\* For each slot there are at most as many fetches that fill it as threads.
C18_FetchesBounded ==
    /\ n.get_transaction <= Cardinality(Threads)
    /\ n.receipts <= Cardinality(Threads)

\* C18: with two threads reading one handle concurrently, in every interleaving
\* each slot holds nothing or one complete backend response, each slot is
\* fetched at most once per thread, and every thread obtains what a sequential
\* execution gives it. In a sequential execution a slot is written once, so all
\* reads of one accessor return one value: two threads that have read block_hash
\* hold the same result, and so do two that have read a terminal status.
C18_ConcurrentReadsAsSequential ==
    /\ C18_SlotsComplete
    /\ C18_FetchesBounded
    /\ \A t, u \in Threads :
          /\ (last[t].op = "block_hash" /\ last[u].op = "block_hash") =>
                last[t].res = last[u].res
          /\ (last[t].op = "status" /\ last[u].op = "status"
                /\ last[t].res # Return(PENDING) /\ last[u].res # Return(PENDING)) =>
                last[t].res = last[u].res

\* C19: a wait() cancelled before any of its checks received a receipt leaves
\* the receipt slot empty and every slot and call counter as they were, the
\* handle idle; the status read or the wait() that follows starts as on a fresh
\* handle (one receipt query, the loop counters at zero), and returns PENDING
\* with the slot empty, or the status of the chain's receipt with the receipt in
\* the slot; every wait() that is not cancelled returns only with the chain's
\* receipt in the slot.
C19_CancelledWaitLeavesPending ==
    /\ [](last.op = "cancelled" => (th.pc = "idle" /\ n.cancelled > 0))
    /\ []((InWait /\ ~th.cached) => (self.tx_receipt = None /\ th.queries = th.checks))
    /\ [][(InWait /\ ~th.cached /\ last'.op = "cancelled") =>
             /\ self'.tx_receipt = None
             /\ self' = self
             /\ [n' EXCEPT !.cancelled = n.cancelled] = n
             /\ th' = Idle]_vars
    /\ [][(last.op = "cancelled" /\ self.tx_receipt = None /\ last'.op = "status") =>
             /\ last'.res = Return(status(FreshState, chain).ret)
             /\ last'.q = 1
             /\ self'.tx_receipt = chain.receipt
             /\ chain.receipt = None <=> last'.res = Return(PENDING)]_vars
    /\ [][(last.op = "cancelled" /\ th'.pc = "fast") =>
             th' = [Idle EXCEPT !.pc = "fast", !.op = th'.op,
                                !.cached = self.tx_receipt # None]]_vars
    /\ [][(InWait /\ ~InWait' /\ last'.op # "cancelled") =>
             (self'.tx_receipt # None /\ self'.tx_receipt = chain.receipt)]_vars

\* C19 witness: a wait() was cancelled while polling, and a later wait() on the
\* handle polled again and returned with the receipt.
C19_Witness ==
    /\ n.cancelled > 0
    /\ last.op = "wait"
    /\ ~last.cached
    /\ last.res = Return(None)
    /\ th.pc = "idle"
    /\ self.tx_receipt # None
    /\ self.tx_receipt = chain.receipt

====
